---- MODULE Spec2Model ----
(***************************************************************************)
(* Model of the CSV collector (src/collect_nse_csv.py) and of the dated    *)
(* BSE download retry loop (src/download_bse_bhavcopy.py).                 *)
(*                                                                         *)
(* Strings are sequences of one-character strings, so that lower(),        *)
(* upper(), endswith(), Path.suffix and glob matching are computed         *)
(* character by character as the interpreter computes them.                *)
(***************************************************************************)
EXTENDS Integers, Sequences, FiniteSets, TLC

(* ---------------------------------------------------------------------- *)
(* str methods                                                             *)
(* ---------------------------------------------------------------------- *)
UpperAlpha == <<"A","B","C","D","E","F","G","H","I","J","K","L","M",
                "N","O","P","Q","R","S","T","U","V","W","X","Y","Z">>
LowerAlpha == <<"a","b","c","d","e","f","g","h","i","j","k","l","m",
                "n","o","p","q","r","s","t","u","v","w","x","y","z">>

LowerChar(c) ==
    IF \E i \in 1..Len(UpperAlpha) : UpperAlpha[i] = c
    THEN LowerAlpha[CHOOSE i \in 1..Len(UpperAlpha) : UpperAlpha[i] = c]
    ELSE c

UpperChar(c) ==
    IF \E i \in 1..Len(LowerAlpha) : LowerAlpha[i] = c
    THEN UpperAlpha[CHOOSE i \in 1..Len(LowerAlpha) : LowerAlpha[i] = c]
    ELSE c

\* str.lower()
Lower(s) == [i \in 1..Len(s) |-> LowerChar(s[i])]

\* str.upper()
Upper(s) == [i \in 1..Len(s) |-> UpperChar(s[i])]

\* str.endswith(suf)
EndsWith(s, suf) ==
    /\ Len(suf) <= Len(s)
    /\ SubSeq(s, Len(s) - Len(suf) + 1, Len(s)) = suf

\* str.startswith(pre)
StartsWith(s, pre) ==
    /\ Len(pre) <= Len(s)
    /\ SubSeq(s, 1, Len(pre)) = pre

\* `sub in s`
Contains(s, sub) ==
    \E i \in 0..(Len(s) - Len(sub)) : SubSeq(s, i + 1, i + Len(sub)) = sub

\* str.lstrip(): drop leading whitespace
RECURSIVE LStrip(_)
LStrip(s) ==
    IF s # <<>> /\ Head(s) \in {" ", "\n", "\t"} THEN LStrip(Tail(s)) ELSE s

\* fnmatch.fnmatchcase(s, pat) for patterns made of literals, `*` and `?`
RECURSIVE FnMatchCase(_, _)
FnMatchCase(s, pat) ==
    IF pat = <<>> THEN s = <<>>
    ELSE IF Head(pat) = "*"
         THEN FnMatchCase(s, Tail(pat))
              \/ (s # <<>> /\ FnMatchCase(Tail(s), pat))
         ELSE /\ s # <<>>
              /\ (Head(pat) = "?" \/ Head(pat) = Head(s))
              /\ FnMatchCase(Tail(s), Tail(pat))

(* ---------------------------------------------------------------------- *)
(* Bounds of the model                                                     *)
(* ---------------------------------------------------------------------- *)
\* at most this many files exist on disk when the collector starts
MaxFiles == 2
\* largest --max-back value drawn for the BSE download
MaxBack == 2

(* ---------------------------------------------------------------------- *)
(* Configuration constants of collect_nse_csv.py                           *)
(* ---------------------------------------------------------------------- *)
P_MW  == <<"M","W","-","S","G","B","*",".","c","s","v">>
P_NSE == <<"n","s","e","_","s","g","b","_","d","a","t","a","*",".","c","s","v">>
DEFAULT_PATTERNS == <<P_MW, P_NSE>>

S_crdownload == <<".","c","r","d","o","w","n","l","o","a","d">>
S_part == <<".","p","a","r","t">>
S_tmp  == <<".","t","m","p">>
IGNORE_SUFFIXES == {S_crdownload, S_part, S_tmp}

SKIP_DIR_NAMES == {
    <<"w","i","n","d","o","w","s">>,
    <<"p","r","o","g","r","a","m"," ","f","i","l","e","s">>,
    <<"p","r","o","g","r","a","m"," ","f","i","l","e","s"," ","(","x","8","6",")">>,
    <<"p","r","o","g","r","a","m","d","a","t","a">>,
    <<"$","r","e","c","y","c","l","e",".","b","i","n">>,
    <<"s","y","s","t","e","m"," ","v","o","l","u","m","e"," ","i","n","f","o","r","m","a","t","i","o","n">>,
    <<"a","p","p","d","a","t","a">>,
    <<"c","a","c","h","e">>,
    <<".","c","a","c","h","e">>,
    <<"t","e","m","p">>,
    <<"t","m","p">>,
    <<".","g","i","t">>,
    <<".","s","v","n">>,
    <<"n","o","d","e","_","m","o","d","u","l","e","s">>,
    <<"_","_","p","y","c","a","c","h","e","_","_">>}

CSV_EXT == <<".","c","s","v">>
FIXED_NAME == <<"n","s","e","_","s","g","b","_","d","a","t","a",".","c","s","v">>
RECENT_MINUTES == 180

(* ---------------------------------------------------------------------- *)
(* The machine: one directory tree, read as "/" on POSIX and as the only   *)
(* ready drive "C:\" on Windows.  A directory is the sequence of the names *)
(* of its path components; the root is the empty sequence.                 *)
(* ---------------------------------------------------------------------- *)
D_tmp       == <<"t","m","p">>
D_cache     == <<".","c","a","c","h","e">>
D_git       == <<".","g","i","t">>
D_home      == <<"h","o","m","e">>
D_Downloads == <<"D","o","w","n","l","o","a","d","s">>
D_docs      == <<"d","o","c","s">>
D_repo      == <<"r","e","p","o">>
D_src       == <<"s","r","c">>
D_mnt       == <<"m","n","t">>
D_media     == <<"m","e","d","i","a">>
D_Volumes   == <<"V","o","l","u","m","e","s">>
D_data      == <<"d","a","t","a">>
D_nsedata   == <<"n","s","e","_","s","g","b","_","d","a","t","a">>

Root        == <<>>
TmpDir      == <<D_tmp>>
HomeDir     == <<D_home>>
DownloadsDir == <<D_home, D_Downloads>>
DocsDir     == <<D_home, D_docs>>
CacheDir    == <<D_home, D_cache>>
RepoDir     == <<D_home, D_repo>>
ScriptDir   == <<D_home, D_repo, D_src>>
GitDir      == <<D_home, D_repo, D_git>>
MntDir      == <<D_mnt>>

\* the directories that exist before the collector runs
Dirs == {Root, TmpDir, HomeDir, DownloadsDir, DocsDir, CacheDir, RepoDir,
         ScriptDir, GitDir, MntDir}

Parent(d) == SubSeq(d, 1, Len(d) - 1)
DirName(d) == d[Len(d)]

\* [d] + list(d.parents)
RECURSIVE SelfAndParents(_)
SelfAndParents(d) ==
    IF d = <<>> THEN <<d>> ELSE <<d>> \o SelfAndParents(Parent(d))

\* an arbitrary but fixed listing order of a finite set (os.scandir order)
RECURSIVE SetToSeq(_)
SetToSeq(S) ==
    IF S = {} THEN <<>>
    ELSE LET x == CHOOSE x \in S : TRUE IN <<x>> \o SetToSeq(S \ {x})

RECURSIVE Concat(_)
Concat(ss) == IF ss = <<>> THEN <<>> ELSE Head(ss) \o Concat(Tail(ss))

SeqRange(s) == {s[i] : i \in 1..Len(s)}

\* order-preserving removal of repeated elements
RECURSIVE Uniq(_)
Uniq(s) ==
    IF s = <<>> THEN <<>>
    ELSE LET front == Uniq(SubSeq(s, 1, Len(s) - 1))
             x     == s[Len(s)]
         IN  IF x \in SeqRange(front) THEN front ELSE Append(front, x)

\* file names the browser or the project's scripts may leave behind
N_MW    == <<"M","W","-","S","G","B","-","1",".","c","s","v">>
N_Mixed == <<"M","w","-","S","g","b","-","1",".","c","s","v">>
N_NSE   == <<"n","s","e","_","s","g","b","_","d","a","t","a",".","c","s","v">>
N_UpExt == <<"M","W","-","S","G","B","-","1",".","C","S","V">>
N_Part  == <<"M","W","-","S","G","B","-","1",".","c","s","v",".","p","a","r","t">>
FileNames == {N_MW, N_Mixed, N_NSE, N_UpExt, N_Part}

\* the directories in which those files may lie
FileDirs == {DownloadsDir, DocsDir, TmpDir, CacheDir}

\* time.time() during the run, in seconds
Now == 100000
\* modification times: 10 min, exactly 180 min and 300 min before Now
Mtimes == {Now - 600, Now - 10800, Now - 18000}

\* the files that may exist: a matching name of every age in every
\* directory, and every spelling, recently written, in the directory the
\* shallow search reaches and in one only the deep search reaches
FileUniverse ==
    [dir : FileDirs, name : {N_MW}, mtime : Mtimes]
        \cup [dir : {DownloadsDir, DocsDir}, name : FileNames, mtime : {Now - 600}]

PathOf(f) == [dir |-> f.dir, name |-> f.name]

\* sets of at most n files, no two with the same path
RECURSIVE FileSets(_)
FileSets(n) ==
    IF n = 0 THEN {{}}
    ELSE LET P == FileSets(n - 1)
         IN  P \cup {s \cup {f} : s \in P, f \in FileUniverse}

ValidFs(s) == \A f, g \in s : PathOf(f) = PathOf(g) => f = g

(* ---------------------------------------------------------------------- *)
(* pathlib / os helpers                                                    *)
(* ---------------------------------------------------------------------- *)
\* PurePath.suffix: the name from its last dot on, unless that dot is the
\* first or the last character
Suffix(name) ==
    LET dots == {i \in 1..Len(name) : name[i] = "."} IN
    IF dots = {} THEN <<>>
    ELSE LET i == CHOOSE i \in dots : \A j \in dots : j <= i IN
         IF 1 < i /\ i < Len(name) THEN SubSeq(name, i, Len(name)) ELSE <<>>

Sep(plat) == IF plat = "Windows" THEN "\\" ELSE "/"

RECURSIVE JoinDir(_, _)
JoinDir(d, plat) ==
    IF d = <<>> THEN <<>> ELSE JoinDir(Parent(d), plat) \o DirName(d) \o <<Sep(plat)>>

\* str(p)
PathStr(p, plat) ==
    (IF plat = "Windows" THEN <<"C", ":", "\\">> ELSE <<"/">>)
        \o JoinDir(p.dir, plat) \o p.name

\* the flavour's case folding: Windows paths compare case-insensitively
Casefold(s, plat) == IF plat = "Windows" THEN Lower(s) ELSE s

\* PurePath.match(pat) and the matcher of Path.glob(pat), on a bare name
NameMatches(name, pat, plat) ==
    FnMatchCase(Casefold(name, plat), Casefold(pat, plat))

HasFile(fsys, p) == \E f \in fsys : PathOf(f) = p

\* p.stat().st_mtime of an existing file
Mtime(fsys, p) == (CHOOSE f \in fsys : PathOf(f) = p).mtime

SubDirs(all, d) == {e \in all : e # <<>> /\ Parent(e) = d}

\* the names a directory lists: its files, then its sub-directories
Entries(fsys, all, d) ==
    SetToSeq({PathOf(f) : f \in {g \in fsys : g.dir = d}})
        \o SetToSeq({[dir |-> d, name |-> DirName(e)] : e \in SubDirs(all, d)})

\* with os.scandir(p): ... succeeds
IsAccessibleDir(all, lck, d) == d \in all /\ d \notin lck

\* d.glob(pat): nothing for a directory that cannot be listed
Glob(fsys, all, lck, d, pat, plat) ==
    IF ~IsAccessibleDir(all, lck, d) THEN <<>>
    ELSE LET Hit(p) == NameMatches(p.name, pat, plat)
         IN  SelectSeq(Entries(fsys, all, d), Hit)

\* the three spellings of a pattern that are tried
Casings(pat) == <<pat, Lower(pat), Upper(pat)>>

\* the matches of all patterns and casings with repetitions removed
ListMatchesDeduplicated(fsys, all, lck, d, patterns, plat) ==
    Uniq(Concat([i \in 1..Len(patterns) |->
        Concat([k \in 1..3 |->
            Glob(fsys, all, lck, d, Casings(patterns[i])[k], plat)])]))

ListMatches(fsys, all, lck, d, patterns, plat) ==
    Concat([i \in 1..Len(patterns) |->
        Concat([k \in 1..3 |->
            Glob(fsys, all, lck, d, Casings(patterns[i])[k], plat)])])

GuessRepoRoot(all, script_dir) ==
    LET ups  == SelfAndParents(script_dir)
        hits == {i \in 1..Len(ups) :
                    ups[i] \o <<D_git>> \in all \/ ups[i] \o <<D_data>> \in all}
    IN  IF hits = {} THEN script_dir
        ELSE ups[CHOOSE i \in hits : \A j \in hits : i <= j]

(* ---------------------------------------------------------------------- *)
(* _enumerate_accessible_roots                                             *)
(* ---------------------------------------------------------------------- *)
\* GetLogicalDrives(): drives C: and D: are present
DriveBitmask == 12
DRIVE_UNKNOWN == 0
DRIVE_NO_ROOT_DIR == 1
\* GetDriveTypeW: C: is a fixed disk, D: an optical drive without a disc
DriveType(letter) == IF letter = "C" THEN 3 ELSE IF letter = "D" THEN 5 ELSE 1
\* Path("X:\\"): the tree is drive C:, any other drive has no listable root
DriveRoot(letter) == IF letter = "C" THEN Root ELSE <<<<letter, ":">>>>

WindowsRoots(all, lck) ==
    LET Ready(i) == /\ (DriveBitmask \div (2 ^ (i - 1))) % 2 = 1
                    /\ DriveType(UpperAlpha[i]) \notin {DRIVE_NO_ROOT_DIR, DRIVE_UNKNOWN}
                    /\ IsAccessibleDir(all, lck, DriveRoot(UpperAlpha[i]))
    IN  [k \in 1..Len(SelectSeq([i \in 1..26 |-> i], Ready)) |->
            DriveRoot(UpperAlpha[SelectSeq([i \in 1..26 |-> i], Ready)[k]])]

MountCandidates == <<Root, <<D_mnt>>, <<D_media>>, <<D_Volumes>>>>

\* every listable candidate, each followed by its listable sub-directories
PosixRoots(all, lck) ==
    LET Listable(d) == IsAccessibleDir(all, lck, d)
    IN  Concat([i \in 1..Len(MountCandidates) |->
            IF Listable(MountCandidates[i])
            THEN <<MountCandidates[i]>>
                 \o SelectSeq(SetToSeq(SubDirs(all, MountCandidates[i])), Listable)
            ELSE <<>>])

EnumerateAccessibleRoots(all, lck, plat) ==
    Uniq(IF plat = "Windows" THEN WindowsRoots(all, lck) ELSE PosixRoots(all, lck))

(* ---------------------------------------------------------------------- *)
(* _recent_files                                                           *)
(* ---------------------------------------------------------------------- *)
\* dirnames[:] = [name for name in dirnames if name.lower() not in SKIP_DIR_NAMES]
PruneDirnames(dirnames) ==
    LET Keep(n) == Lower(n) \notin SKIP_DIR_NAMES IN SelectSeq(dirnames, Keep)

\* the directories os.walk(root, topdown=True) yields, pruned as it descends;
\* a directory that cannot be listed yields nothing (onerror ignores it)
RECURSIVE Walk(_, _, _)
Walk(all, lck, d) ==
    IF ~IsAccessibleDir(all, lck, d) THEN <<>>
    ELSE LET dirnames == PruneDirnames(
                 SetToSeq({DirName(e) : e \in SubDirs(all, d)}))
         IN  <<d>> \o Concat([i \in 1..Len(dirnames) |->
                                 Walk(all, lck, Append(d, dirnames[i]))])

IsCsv(p) == Lower(Suffix(p.name)) = CSV_EXT

HasIgnoredSuffix(p, plat) ==
    \E suf \in IGNORE_SUFFIXES : EndsWith(Lower(PathStr(p, plat)), suf)

MatchesAny(name, patterns, plat) ==
    \E i \in 1..Len(patterns) : \E k \in 1..3 :
        NameMatches(name, Casings(patterns[i])[k], plat)

Cutoff(recent_minutes) == Now - recent_minutes * 60

\* the recency test left out
IsRecentAlways(mtime, cutoff) == TRUE

IsRecent(mtime, cutoff) == mtime >= cutoff

\* lines 145-170 for the files of one directory
DeepAccept(fsys, p, patterns, cutoff, plat) ==
    /\ IsCsv(p)
    /\ ~HasIgnoredSuffix(p, plat)
    /\ MatchesAny(p.name, patterns, plat)
    /\ HasFile(fsys, p)
    /\ IsRecent(Mtime(fsys, p), cutoff)

DeepScan(fsys, all, lck, patterns, cutoff, plat) ==
    LET roots == EnumerateAccessibleRoots(all, lck, plat)
        Ok(p) == DeepAccept(fsys, p, patterns, cutoff, plat)
        InDir(d) ==
            SelectSeq(SetToSeq({PathOf(f) : f \in {g \in fsys : g.dir = d}}), Ok)
        Under(root) ==
            LET ds == Walk(all, lck, root)
            IN  Concat([j \in 1..Len(ds) |-> InDir(ds[j])])
    IN  Concat([i \in 1..Len(roots) |-> Under(roots[i])])

\* lines 176-178
ShallowAccept(fsys, p, cutoff, plat) ==
    /\ HasFile(fsys, p)
    /\ IsCsv(p)
    /\ IsRecent(Mtime(fsys, p), cutoff)
    /\ ~HasIgnoredSuffix(p, plat)

ShallowScan(fsys, all, lck, dirs, patterns, cutoff, plat) ==
    LET Ok(p) == ShallowAccept(fsys, p, cutoff, plat)
    IN  Concat([i \in 1..Len(dirs) |->
            SelectSeq(ListMatches(fsys, all, lck, dirs[i], patterns, plat), Ok)])

\* reverse=True left out
OlderFirst(ahead, later) == ahead <= later

\* reverse=True: an element stays ahead of a later one whose key is not greater
NewerFirst(ahead, later) == ahead >= later

RECURSIVE InsertByMtime(_, _, _)
InsertByMtime(fsys, x, s) ==
    IF s = <<>> THEN <<x>>
    ELSE IF NewerFirst(Mtime(fsys, Head(s)), Mtime(fsys, x))
         THEN <<Head(s)>> \o InsertByMtime(fsys, x, Tail(s))
         ELSE <<x>> \o s

\* files.sort(key=lambda p: p.stat().st_mtime, reverse=True), a stable sort
RECURSIVE SortByMtime(_, _)
SortByMtime(fsys, s) ==
    IF s = <<>> THEN <<>>
    ELSE InsertByMtime(fsys, s[Len(s)], SortByMtime(fsys, SubSeq(s, 1, Len(s) - 1)))

(* ---------------------------------------------------------------------- *)
(* State                                                                   *)
(* ---------------------------------------------------------------------- *)
VARIABLES
    platform,     \* platform.system(): "Windows" or "Posix"
    deep,         \* the --deep flag
    locked,       \* directories that exist but cannot be listed
    fs,           \* the files on disk: records [dir, name, mtime]
    created,      \* directories made by the collector
    pc,           \* where collect_csv is
    mode,         \* the `deep` argument of the running _recent_files call
    files,        \* _recent_files' list before its sort
    candidates,   \* what _recent_files returned
    roots,        \* the roots enumerated by the deep scan
    deepTried,    \* the deep search was started
    src,          \* <<>> or <<the chosen source path>>
    srcContent,   \* <<>> or <<the chosen source as it was when chosen>>
    dst,          \* <<>> or <<the destination path>>
    dstContent,   \* <<>> or <<what the destination file holds>>
    moveRaised,   \* shutil.move raised
    unlinkFailed, \* src.unlink() raised in the fallback
    fsOps,        \* the file operations the collector has performed
    error,        \* the exception that left collect_csv, if any
    vanished,     \* files deleted by another process during the run
    shallowOut,   \* <<>> or <<what the shallow search returned>>
    bpc,          \* where find_latest_csv is
    start_date,   \* its start date, as a day number
    max_back_days,
    d,            \* the date tried next
    attempt,      \* the loop counter
    tried,        \* the fetches made so far: [date, response, text]
    found         \* <<>> or <<[date, text]>>, the value returned

collectorVars == <<platform, deep, locked, fs, created, pc, mode, files,
                   candidates, roots, deepTried, src, srcContent, dst,
                   dstContent, moveRaised, unlinkFailed, fsOps, error, vanished,
                   shallowOut>>
bseVars == <<bpc, start_date, max_back_days, d, attempt, tried, found>>
vars == <<collectorVars, bseVars>>

NoError == [type |-> "none", patterns |-> <<>>, note |-> ""]

\* the invocation: runner.py starts the collector in the repository root,
\* with the default patterns and the default recency window
Cwd == RepoDir
Patterns == DEFAULT_PATTERNS
Platforms == {"Windows", "Posix"}
LockedChoices == {{}, {TmpDir}}

\* os.environ: Windows sets TMP and TEMP, a POSIX shell usually neither
Environ(plat) ==
    IF plat = "Windows" THEN [TMP |-> <<TmpDir>>, TEMP |-> <<TmpDir>>]
    ELSE [TMP |-> <<>>, TEMP |-> <<>>]

AllDirs == Dirs \cup created

\* lines 213-223
SearchDirs(all, plat) ==
    LET env == Environ(plat)
        FromEnv(e) == IF e # <<>> /\ e[1] \in all THEN e ELSE <<>>
    IN  <<Cwd, ScriptDir, Parent(ScriptDir), Append(HomeDir, D_Downloads)>>
            \o FromEnv(env.TMP) \o FromEnv(env.TEMP)

\* data_dir = repo_root / "data" / "nse_sgb_data", resolved once, before the
\* data directory is made
DataDir(all) == GuessRepoRoot(all, ScriptDir) \o <<D_data, D_nsedata>>

\* mkdir(parents=True, exist_ok=True)
MkdirParents(dir) == {SubSeq(dir, 1, n) : n \in 0..Len(dir)}

BseIdle ==
    /\ bpc = "idle" /\ start_date = 0 /\ max_back_days = 0 /\ d = 0
    /\ attempt = 0 /\ tried = <<>> /\ found = <<>>

Init ==
    /\ platform \in Platforms
    /\ deep \in BOOLEAN
    /\ locked \in LockedChoices
    /\ fs \in {s \in FileSets(MaxFiles) : ValidFs(s)}
    /\ created = {}
    /\ pc = "start"
    /\ mode = "shallow"
    /\ files = <<>>
    /\ candidates = <<>>
    /\ roots = <<>>
    /\ deepTried = FALSE
    /\ src = <<>> /\ srcContent = <<>> /\ dst = <<>> /\ dstContent = <<>>
    /\ moveRaised = FALSE /\ unlinkFailed = FALSE
    /\ fsOps = {}
    /\ error = NoError
    /\ vanished = {}
    /\ shallowOut = <<>>
    /\ BseIdle

(* ---------------------------------------------------------------------- *)
(* collect_csv                                                             *)
(* ---------------------------------------------------------------------- *)
\* lines 206-226: make the data directory, then call the shallow search
CollectStart ==
    /\ pc = "start"
    /\ created' = MkdirParents(DataDir(Dirs)) \ Dirs
    /\ fsOps' = fsOps \cup {"mkdir"}
    /\ mode' = "shallow"
    /\ pc' = "scan"
    /\ UNCHANGED <<platform, deep, locked, fs, files, candidates, roots,
                   deepTried, src, srcContent, dst, dstContent, moveRaised,
                   unlinkFailed, error, vanished, shallowOut, bseVars>>

\* lines 134-180: the filtering loops of _recent_files
RecentFilesScan ==
    /\ pc = "scan"
    /\ IF mode = "deep"
       THEN /\ roots' = EnumerateAccessibleRoots(AllDirs, locked, platform)
            /\ files' = DeepScan(fs, AllDirs, locked, Patterns,
                                 Cutoff(RECENT_MINUTES), platform)
       ELSE /\ roots' = roots
            /\ files' = ShallowScan(fs, AllDirs, locked,
                                    SearchDirs(AllDirs, platform), Patterns,
                                    Cutoff(RECENT_MINUTES), platform)
    /\ pc' = "sort"
    /\ UNCHANGED <<platform, deep, locked, fs, created, mode, candidates,
                   deepTried, src, srcContent, dst, dstContent, moveRaised,
                   unlinkFailed, fsOps, error, vanished, shallowOut, bseVars>>

\* lines 182-184: the sort stats every collected path again, unguarded
RecentFilesSort ==
    /\ pc = "sort"
    /\ IF \A i \in 1..Len(files) : HasFile(fs, files[i])
       THEN /\ candidates' = SortByMtime(fs, files)
            /\ pc' = "returned"
            /\ error' = error
       ELSE /\ candidates' = candidates
            /\ pc' = "raised"
            /\ error' = [type |-> "FileNotFoundError(stat)",
                         patterns |-> <<>>, note |-> ""]
    /\ shallowOut' = IF mode = "shallow" /\ pc' = "returned"
                     THEN <<candidates'>> ELSE shallowOut
    /\ UNCHANGED <<platform, deep, locked, fs, created, mode, files, roots,
                   deepTried, src, srcContent, dst, dstContent, moveRaised,
                   unlinkFailed, fsOps, vanished, bseVars>>

\* the deep search whenever it was asked for
NeedDeepIgnoringShallow(cands, deepFlag) == deepFlag

\* line 227
NeedDeep(cands, deepFlag) == cands = <<>> /\ deepFlag

\* lines 227-229: fall back to the deep search
FallBackToDeep ==
    /\ pc = "returned" /\ mode = "shallow"
    /\ NeedDeep(candidates, deep)
    /\ mode' = "deep"
    /\ deepTried' = TRUE
    /\ pc' = "scan"
    /\ UNCHANGED <<platform, deep, locked, fs, created, files, candidates,
                   roots, src, srcContent, dst, dstContent, moveRaised,
                   unlinkFailed, fsOps, error, vanished, shallowOut, bseVars>>

\* control has reached line 231
AtCheck ==
    /\ pc = "returned"
    /\ mode = "shallow" => ~NeedDeep(candidates, deep)

\* the hint printed whatever was searched
NotFoundNoteFixed(deepFlag) == "try --deep to search all accessible drives"

\* line 235
NotFoundNote(deepFlag) ==
    IF deepFlag THEN "searched all accessible drives"
    ELSE "try --deep to search all accessible drives"

\* lines 231-236
NotFound ==
    /\ AtCheck
    /\ candidates = <<>>
    /\ error' = [type |-> "FileNotFoundError", patterns |-> Patterns,
                 note |-> NotFoundNote(deep)]
    /\ pc' = "failed"
    /\ UNCHANGED <<platform, deep, locked, fs, created, mode, files,
                   candidates, roots, deepTried, src, srcContent, dst,
                   dstContent, moveRaised, unlinkFailed, fsOps, vanished,
                   shallowOut, bseVars>>

\* lines 242-246
Destination(all, keep_timestamped) ==
    [dir |-> DataDir(all),
     name |-> IF keep_timestamped
              THEN [kind |-> "timestamped", stamp |-> Now, text |-> <<>>]
              ELSE [kind |-> "fixed", stamp |-> 0, text |-> FIXED_NAME]]

\* line 239
Newest(cands) == cands[1]

\* lines 238-246
PickNewest ==
    /\ AtCheck
    /\ candidates # <<>>
    /\ \E keep_timestamped \in BOOLEAN :
           dst' = <<Destination(Dirs, keep_timestamped)>>
    /\ src' = <<Newest(candidates)>>
    /\ srcContent' = SetToSeq({f \in fs : PathOf(f) = Newest(candidates)})
    /\ pc' = "move"
    /\ UNCHANGED <<platform, deep, locked, fs, created, mode, files,
                   candidates, roots, deepTried, dstContent, moveRaised,
                   unlinkFailed, fsOps, error, vanished, shallowOut, bseVars>>

(* ---------------------------------------------------------------------- *)
(* The mover, lines 248-256.  shutil.move(src, dst) renames; when the      *)
(* rename fails it copies and then unlinks the source, and raises if       *)
(* either of the two fails.  Every file operation may fail for reasons     *)
(* outside the program (other device, permissions, full disk); none can    *)
(* succeed on a source that is gone.                                       *)
(* ---------------------------------------------------------------------- *)
SrcFile == CHOOSE f \in fs : PathOf(f) = src[1]
SrcExists == src # <<>> /\ HasFile(fs, src[1])

\* shutil.move: os.rename succeeds
MoveRenameOk ==
    /\ pc = "move" /\ SrcExists
    /\ dstContent' = <<SrcFile>>
    /\ fs' = fs \ {SrcFile}
    /\ fsOps' = fsOps \cup {"rename"}
    /\ pc' = "report"
    /\ UNCHANGED <<platform, deep, locked, created, mode, files, candidates,
                   roots, deepTried, src, srcContent, dst, moveRaised,
                   unlinkFailed, error, vanished, shallowOut, bseVars>>

\* shutil.move: os.rename raises OSError
MoveRenameFails ==
    /\ pc = "move"
    /\ pc' = "move_copy"
    /\ UNCHANGED <<platform, deep, locked, fs, created, mode, files,
                   candidates, roots, deepTried, src, srcContent, dst,
                   dstContent, moveRaised, unlinkFailed, fsOps, error,
                   vanished, shallowOut, bseVars>>

\* shutil.move: its own copy2 succeeds
MoveCopyOk ==
    /\ pc = "move_copy" /\ SrcExists
    /\ dstContent' = <<SrcFile>>
    /\ fsOps' = fsOps \cup {"copy"}
    /\ pc' = "move_unlink"
    /\ UNCHANGED <<platform, deep, locked, fs, created, mode, files,
                   candidates, roots, deepTried, src, srcContent, dst,
                   moveRaised, unlinkFailed, error, vanished, shallowOut, bseVars>>

\* shutil.move: its own copy2 raises, so shutil.move raises (line 251)
MoveCopyFails ==
    /\ pc = "move_copy"
    /\ moveRaised' = TRUE
    /\ pc' = "fb_copy"
    /\ UNCHANGED <<platform, deep, locked, fs, created, mode, files,
                   candidates, roots, deepTried, src, srcContent, dst,
                   dstContent, unlinkFailed, fsOps, error, vanished, shallowOut, bseVars>>

\* shutil.move: its own os.unlink succeeds
MoveUnlinkOk ==
    /\ pc = "move_unlink" /\ SrcExists
    /\ fs' = fs \ {SrcFile}
    /\ fsOps' = fsOps \cup {"unlink"}
    /\ pc' = "report"
    /\ UNCHANGED <<platform, deep, locked, created, mode, files, candidates,
                   roots, deepTried, src, srcContent, dst, dstContent,
                   moveRaised, unlinkFailed, error, vanished, shallowOut, bseVars>>

\* shutil.move: its own os.unlink raises, so shutil.move raises (line 251)
MoveUnlinkFails ==
    /\ pc = "move_unlink"
    /\ moveRaised' = TRUE
    /\ pc' = "fb_copy"
    /\ UNCHANGED <<platform, deep, locked, fs, created, mode, files,
                   candidates, roots, deepTried, src, srcContent, dst,
                   dstContent, unlinkFailed, fsOps, error, vanished, shallowOut, bseVars>>

\* line 252: shutil.copy2 succeeds
FallbackCopyOk ==
    /\ pc = "fb_copy" /\ SrcExists
    /\ dstContent' = <<SrcFile>>
    /\ fsOps' = fsOps \cup {"copy"}
    /\ pc' = "fb_unlink"
    /\ UNCHANGED <<platform, deep, locked, fs, created, mode, files,
                   candidates, roots, deepTried, src, srcContent, dst,
                   moveRaised, unlinkFailed, error, vanished, shallowOut, bseVars>>

\* line 252: shutil.copy2 raises; nothing catches it
FallbackCopyFails ==
    /\ pc = "fb_copy"
    /\ error' = [type |-> "copy2 failed", patterns |-> <<>>, note |-> ""]
    /\ pc' = "raised"
    /\ UNCHANGED <<platform, deep, locked, fs, created, mode, files,
                   candidates, roots, deepTried, src, srcContent, dst,
                   dstContent, moveRaised, unlinkFailed, fsOps, vanished,
                   shallowOut, bseVars>>

\* lines 253-254: src.unlink() succeeds
FallbackUnlinkOk ==
    /\ pc = "fb_unlink" /\ SrcExists
    /\ fs' = fs \ {SrcFile}
    /\ fsOps' = fsOps \cup {"unlink"}
    /\ pc' = "report"
    /\ UNCHANGED <<platform, deep, locked, created, mode, files, candidates,
                   roots, deepTried, src, srcContent, dst, dstContent,
                   moveRaised, unlinkFailed, error, vanished, shallowOut, bseVars>>

\* the inner try left out: a failed unlink leaves collect_csv
AfterUnlinkFailureUncaught == "raised"

\* lines 255-256: `except Exception: pass`
AfterUnlinkFailure == "report"

\* lines 253-256: src.unlink() raises
FallbackUnlinkFails ==
    /\ pc = "fb_unlink"
    /\ unlinkFailed' = TRUE
    /\ pc' = AfterUnlinkFailure
    /\ error' = IF AfterUnlinkFailure = "raised"
                THEN [type |-> "unlink failed", patterns |-> <<>>, note |-> ""]
                ELSE error
    /\ UNCHANGED <<platform, deep, locked, fs, created, mode, files,
                   candidates, roots, deepTried, src, srcContent, dst,
                   dstContent, moveRaised, fsOps, vanished, shallowOut, bseVars>>

\* lines 258-262: print the paths and return dst
Report ==
    /\ pc = "report"
    /\ pc' = "done"
    /\ UNCHANGED <<platform, deep, locked, fs, created, mode, files,
                   candidates, roots, deepTried, src, srcContent, dst,
                   dstContent, moveRaised, unlinkFailed, fsOps, error,
                   vanished, shallowOut, bseVars>>

\* Another process deletes a file while the collector runs.  Only the
\* deletions the collector can still observe are taken: of a collected path
\* before the sort, of the path about to be moved afterwards.
Observed(p) ==
    \/ pc = "sort" /\ p \in SeqRange(files)
    \/ pc = "returned" /\ candidates # <<>> /\ p = candidates[1]
    \/ pc \in {"move", "move_copy", "move_unlink", "fb_copy", "fb_unlink"}
         /\ p = src[1]

Vanish ==
    /\ \E f \in fs :
        /\ Observed(PathOf(f))
        /\ fs' = fs \ {f}
        /\ vanished' = vanished \cup {f}
    /\ UNCHANGED <<platform, deep, locked, created, pc, mode, files,
                   candidates, roots, deepTried, src, srcContent, dst,
                   dstContent, moveRaised, unlinkFailed, fsOps, error,
                   shallowOut, bseVars>>

Next ==
    \/ CollectStart
    \/ RecentFilesScan
    \/ RecentFilesSort
    \/ FallBackToDeep
    \/ NotFound
    \/ PickNewest
    \/ MoveRenameOk
    \/ MoveRenameFails
    \/ MoveCopyOk
    \/ MoveCopyFails
    \/ MoveUnlinkOk
    \/ MoveUnlinkFails
    \/ FallbackCopyOk
    \/ FallbackCopyFails
    \/ FallbackUnlinkOk
    \/ FallbackUnlinkFails
    \/ Report
    \/ Vanish

Spec == Init /\ [][Next]_vars

(* ---------------------------------------------------------------------- *)
(* download_bse_bhavcopy.py: fetch_csv and find_latest_csv                 *)
(* ---------------------------------------------------------------------- *)
T_csv     == <<"A", ",", "B", "\n", "1", ",", "2">>
T_empty   == <<>>
T_doctype == <<"\n", "<", "!", "D", "O", "C", "T", "Y", "P", "E", " ",
               "h", "t", "m", "l", ">">>
C_csv     == <<"t", "e", "x", "t", "/", "c", "s", "v">>
C_html    == <<"T", "e", "x", "t", "/", "H", "T", "M", "L", ";", " ",
               "c", "h", "a", "r", "s", "e", "t", "=", "u", "t", "f", "-", "8">>
C_none    == <<>>
L_texthtml == <<"t", "e", "x", "t", "/", "h", "t", "m", "l">>
L_doctype  == <<"<", "!", "d", "o", "c", "t", "y", "p", "e", " ",
                "h", "t", "m", "l">>

\* what the server may answer for one dated URL
Responses ==
    { [status |-> 200, ctype |-> C_csv,  text |-> T_csv],
      [status |-> 200, ctype |-> C_csv,  text |-> T_empty],
      [status |-> 200, ctype |-> C_html, text |-> T_csv],
      [status |-> 200, ctype |-> C_none, text |-> T_doctype],
      [status |-> 404, ctype |-> C_html, text |-> T_doctype] }

\* session.get raised (timeout, connection error): there is no response
NoResponse == [status |-> 0, ctype |-> C_none, text |-> T_empty]

\* fetch_csv: <<>> stands for None, <<text>> for the text returned
FetchCsv(r) ==
    IF r.status # 200 THEN <<>>
    ELSE IF \/ Contains(Lower(r.ctype), L_texthtml)
            \/ StartsWith(Lower(LStrip(r.text)), L_doctype)
         THEN <<>>
         ELSE <<r.text>>

\* `if text:` is false for None and for the empty string
Truthy(ret) == ret # <<>> /\ ret[1] # <<>>

\* bse_csv_url_for: the URL carries the date as %Y%m%d and nothing else of it
BseCsvUrlFor(date) == <<"BhavCopy_BSE_CM_0_0_0_", date, "_F_0000.CSV">>

\* range(max_back_days)
AttemptsOneShort(max_back) == max_back

\* range(max_back_days + 1)
Attempts(max_back) == max_back + 1

\* d -= timedelta(days=1)
StepBack(date) == date - 1

\* the dates --date may name, as day numbers
StartDates == {100, 200}

CollectorIdle ==
    /\ platform = "Posix" /\ deep = FALSE /\ locked = {} /\ fs = {}
    /\ created = {} /\ pc = "idle" /\ mode = "shallow" /\ files = <<>>
    /\ candidates = <<>> /\ roots = <<>> /\ deepTried = FALSE
    /\ src = <<>> /\ srcContent = <<>> /\ dst = <<>> /\ dstContent = <<>>
    /\ moveRaised = FALSE /\ unlinkFailed = FALSE /\ fsOps = {}
    /\ error = NoError /\ vanished = {} /\ shallowOut = <<>>

InitBse ==
    /\ CollectorIdle
    /\ bpc = "loop"
    /\ start_date \in StartDates
    /\ max_back_days \in 0..MaxBack
    /\ d = start_date
    /\ attempt = 0
    /\ tried = <<>>
    /\ found = <<>>

\* lines 61-69, one iteration whose fetch answers
TryDate ==
    /\ bpc = "loop"
    /\ attempt < Attempts(max_back_days)
    /\ \E r \in Responses :
        /\ tried' = Append(tried, [date |-> d, url |-> BseCsvUrlFor(d), resp |-> r])
        /\ IF Truthy(FetchCsv(r))
           THEN /\ found' = <<[date |-> d, text |-> FetchCsv(r)[1]]>>
                /\ bpc' = "returned"
                /\ UNCHANGED <<d, attempt>>
           ELSE /\ d' = StepBack(d)
                /\ attempt' = attempt + 1
                /\ UNCHANGED <<found, bpc>>
    /\ UNCHANGED <<start_date, max_back_days, collectorVars>>

\* line 64: session.get raises and nothing in find_latest_csv catches it
FetchRaises ==
    /\ bpc = "loop"
    /\ attempt < Attempts(max_back_days)
    /\ tried' = Append(tried, [date |-> d, url |-> BseCsvUrlFor(d),
                               resp |-> NoResponse])
    /\ bpc' = "raised"
    /\ UNCHANGED <<start_date, max_back_days, d, attempt, found, collectorVars>>

\* line 70: the loop ran out
GiveUp ==
    /\ bpc = "loop"
    /\ attempt >= Attempts(max_back_days)
    /\ bpc' = "failed"
    /\ UNCHANGED <<start_date, max_back_days, d, attempt, tried, found,
                   collectorVars>>

NextBse == TryDate \/ FetchRaises \/ GiveUp

SpecBse == InitBse /\ [][NextBse]_vars

(* ---------------------------------------------------------------------- *)
(* Properties                                                              *)
(* ---------------------------------------------------------------------- *)
\* every file that was on disk at some moment of the run
EverFiles == fs \cup vanished \cup SeqRange(dstContent)
MtimeOf(p) == (CHOOSE f \in EverFiles : PathOf(f) = p).mtime
Count(s, x) == Cardinality({i \in 1..Len(s) : s[i] = x})
\* _recent_files has returned to collect_csv
Returned == pc = "returned"
\* collect_csv is past its searches (line 231 or later)
PastSearch == pc \in {"failed", "move", "move_copy", "move_unlink",
                      "fb_copy", "fb_unlink", "report", "done"}

\* C1: in both search modes every path _recent_files returns was modified
\* at or after now - recent_minutes*60, and its lowercased full path ends
\* with none of .crdownload, .part, .tmp.
C1_RecentAndNotPartial ==
    Returned =>
        \A i \in 1..Len(candidates) :
            /\ \E f \in EverFiles :
                  /\ PathOf(f) = candidates[i]
                  /\ f.mtime >= Now - RECENT_MINUTES * 60
            /\ \A suf \in IGNORE_SUFFIXES :
                  ~EndsWith(Lower(PathStr(candidates[i], platform)), suf)

\* a deep search returned a file while a file older than the window lies
\* in the very directory it was found in
C1_Witness ==
    /\ Returned /\ mode = "deep" /\ candidates # <<>>
    /\ \E f \in fs : f.mtime < Now - RECENT_MINUTES * 60

\* C2: no file a deep scan returns lies inside a directory whose
\* lowercased name is in SKIP_DIR_NAMES.
C2_NothingFromSkippedDirs ==
    (Returned /\ mode = "deep") =>
        \A i \in 1..Len(candidates) :
            \A k \in 1..Len(candidates[i].dir) :
                Lower(candidates[i].dir[k]) \notin SKIP_DIR_NAMES

\* C3: the shallow search runs first; the deep search runs if and only if
\* the shallow search returned nothing and deep was requested; when the
\* shallow search returned a candidate no root is enumerated or walked and
\* the file moved is one the shallow search returned.
C3_ShallowFirst ==
    /\ (pc \in {"scan", "sort"} /\ shallowOut = <<>>) => mode = "shallow"
    /\ deepTried <=> mode = "deep"
    /\ deepTried => (deep /\ shallowOut = << <<>> >>)
    /\ (PastSearch /\ deep /\ shallowOut = << <<>> >>) => deepTried
    /\ ~deepTried => roots = <<>>
    /\ (shallowOut # <<>> /\ shallowOut[1] # <<>>) =>
          /\ ~deepTried
          /\ roots = <<>>
          /\ src # <<>> => src[1] \in SeqRange(shallowOut[1])

\* deep was requested, the shallow search found a file, and it was moved
\* without any deep search
C3_Witness ==
    /\ pc = "done" /\ deep /\ ~deepTried
    /\ shallowOut # <<>> /\ shallowOut[1] # <<>>
    /\ dstContent # <<>>

\* C4: with no candidate from the shallow nor (if requested) the deep
\* search, collect_csv raises FileNotFoundError naming the patterns and
\* saying whether the deep search was made, and has moved, copied and
\* deleted nothing: it has only made the data directory.
C4_NotFound ==
    /\ pc = "failed" =>
          /\ error.type = "FileNotFoundError"
          /\ error.patterns = Patterns
          /\ error.note = "searched all accessible drives" <=> deepTried
          /\ error.note = "try --deep to search all accessible drives" <=> ~deepTried
          /\ candidates = <<>> /\ shallowOut = << <<>> >>
          /\ deep => deepTried
          /\ fsOps = {"mkdir"}
          /\ src = <<>> /\ dst = <<>> /\ dstContent = <<>>
    /\ (PastSearch /\ pc # "failed") => candidates # <<>>

\* the deep search was made over a disk that holds files, and found none
C4_Witness == pc = "failed" /\ deepTried /\ fs # {}

C6_NewestFirst ==
    /\ Returned =>
          \A i, j \in 1..Len(candidates) :
              i < j => MtimeOf(candidates[i]) >= MtimeOf(candidates[j])
    /\ pc = "move" =>
          /\ src = <<candidates[1]>>
          /\ \A i \in 1..Len(candidates) :
                MtimeOf(src[1]) >= MtimeOf(candidates[i])

\* two candidates of different age, the newer one picked
C6_Witness ==
    /\ pc = "move" /\ Len(candidates) >= 2
    /\ MtimeOf(src[1]) > MtimeOf(candidates[Len(candidates)])

\* the directories the running search looks into
SearchedDirs ==
    IF mode = "deep"
    THEN UNION {SeqRange(Walk(AllDirs, locked, roots[i])) : i \in 1..Len(roots)}
    ELSE {dir \in SeqRange(SearchDirs(AllDirs, platform)) :
              IsAccessibleDir(AllDirs, locked, dir)}

\* C7: in both modes a recent .csv file in a searched directory whose
\* lowercased name matches a lowercased pattern is collected, whatever the
\* casing of its name on disk.
C7_CaseInsensitive ==
    pc = "sort" =>
        \A f \in fs :
            ( /\ f.dir \in SearchedDirs
              /\ IsCsv(PathOf(f))
              /\ f.mtime >= Now - RECENT_MINUTES * 60
              /\ \E i \in 1..Len(Patterns) :
                    FnMatchCase(Lower(f.name), Lower(Patterns[i])) )
            => PathOf(f) \in SeqRange(files)

\* C8: no stat error on a single file ever leaves _recent_files.
C8_StatErrorsSwallowed == error.type # "FileNotFoundError(stat)"

\* C10 as stated: _recent_files returns each file at most once.
C10_NoDuplicates ==
    Returned =>
        \A i, j \in 1..Len(candidates) :
            candidates[i] = candidates[j] => i = j

\* C10, amended: _recent_files returns a file once for every glob that
\* finds it in shallow mode (one per occurrence of its directory in the
\* search list, per pattern and per casing of the pattern that matches its
\* name), and once for every accessible root whose pruned walk reaches its
\* directory in deep mode; so a file can be returned more than once.
C10_OncePerGlobOrRoot ==
    Returned =>
        \A p \in SeqRange(candidates) :
            Count(candidates, p) =
                IF mode = "deep"
                THEN Cardinality({i \in 1..Len(roots) :
                        p.dir \in SeqRange(Walk(AllDirs, locked, roots[i]))})
                ELSE LET dirs == SearchDirs(AllDirs, platform) IN
                     Cardinality({t \in (1..Len(dirs)) \X (1..Len(Patterns)) \X (1..3) :
                        /\ dirs[t[1]] = p.dir
                        /\ IsAccessibleDir(AllDirs, locked, p.dir)
                        /\ NameMatches(p.name, Casings(Patterns[t[2]])[t[3]], platform)})

\* a shallow search returned the same file twice
C10_Witness ==
    /\ Returned /\ mode = "shallow"
    /\ \E p \in SeqRange(candidates) : Count(candidates, p) >= 2

\* the fetch answered 200 with a body that is not HTML
IsCsvResponse(r) ==
    /\ r.status = 200
    /\ ~Contains(Lower(r.ctype), L_texthtml)
    /\ ~StartsWith(Lower(LStrip(r.text)), L_doctype)

\* the dates start_date, start_date - 1, ... are fetched in that order, one
\* fetch each, none beyond start_date - max_back_days
TriedInOrder ==
    /\ Len(tried) <= max_back_days + 1
    /\ \A i \in 1..Len(tried) : tried[i].date = start_date - (i - 1)

\* C9 as stated: the dates are tried in order, the search stops at and
\* returns the first date answered by a 200 response that is not HTML, and
\* raises FileNotFoundError after exactly max_back_days+1 such failures.
C9_StopsAtFirstNonHtml200 ==
    /\ TriedInOrder
    /\ \A i \in 1..(Len(tried) - 1) : ~IsCsvResponse(tried[i].resp)
    /\ bpc = "returned" =>
          /\ IsCsvResponse(tried[Len(tried)].resp)
          /\ found = <<[date |-> tried[Len(tried)].date,
                        text |-> tried[Len(tried)].resp.text]>>
    /\ bpc = "failed" =>
          /\ Len(tried) = max_back_days + 1
          /\ \A i \in 1..Len(tried) : ~IsCsvResponse(tried[i].resp)

\* C9, amended: the dates are tried in order, one fetch each; the search
\* stops at and returns the first date whose fetch yields non-empty CSV
\* text (a 200 response that is not HTML and whose body is not empty), and
\* raises FileNotFoundError after exactly max_back_days+1 fetches that
\* yielded none.
C9_StopsAtFirstNonEmptyCsv ==
    /\ TriedInOrder
    /\ \A i \in 1..(Len(tried) - 1) :
          ~(IsCsvResponse(tried[i].resp) /\ tried[i].resp.text # <<>>)
    /\ bpc = "loop" => (Len(tried) = attempt /\ d = start_date - attempt)
    /\ bpc = "returned" =>
          /\ IsCsvResponse(tried[Len(tried)].resp)
          /\ tried[Len(tried)].resp.text # <<>>
          /\ found = <<[date |-> tried[Len(tried)].date,
                        text |-> tried[Len(tried)].resp.text]>>
    /\ bpc = "failed" =>
          /\ Len(tried) = max_back_days + 1
          /\ \A i \in 1..Len(tried) :
                ~(IsCsvResponse(tried[i].resp) /\ tried[i].resp.text # <<>>)
    /\ bpc = "raised" => tried[Len(tried)].resp = NoResponse

\* an empty 200 answer for the first date, the CSV found one day earlier
C9_Witness ==
    /\ bpc = "returned" /\ Len(tried) = 2
    /\ IsCsvResponse(tried[1].resp) /\ tried[1].resp.text = <<>>
    /\ found[1].date = start_date - 1

====
